---------------------------- MODULE Spec2Model ----------------------------
(***************************************************************************)
(* Deck assembly (CardSelect) and session feed (Game) of the agent-arena    *)
(* frontend.                                                               *)
(*                                                                         *)
(* A JavaScript object with string keys is modelled as the sequence of its *)
(* own properties in insertion order, each a record [key, value]; an array *)
(* is a sequence.  Card ids are the integers the id strings spell.         *)
(***************************************************************************)
EXTENDS Integers, Sequences, FiniteSets, TLC

(* Size of the card pool ALL_CARDS the model explores. *)
NumCards == 6

(* The shuffles the deck-assembly specification draws from: the pool rotated *)
(* by 0 .. MaxRotation places, as it stands and reversed.                    *)
MaxRotation == 2

(* POST /api/deck requests that may await their response at once *)
MaxRequests == 2

(* GET /api/sync fetches the interval of Game issues in all *)
MaxTicks == 3

(* GET /api/sync fetches issued in all when each is answered before the next *)
MaxPolls == 5

(* GET /api/sync fetches that may await their response at once *)
MaxInFlight == 2

(* Length of the history up to which the tip of the sync endpoint changes *)
MaxTipLog == 1

(* POST /api/puzzle requests that may await their response at once *)
MaxPuzzleRequests == 3

VARIABLES
    catalog,        \* ALL_CARDS: the card pool, in rendering order
    selectedCards,  \* CardSelect's selectedCards state (object role -> array)
    deckRequests,   \* bodies of the POST /api/deck requests awaiting their response
    view,           \* the route shown: "/", "/CardSelection" or "/game"
    polling,        \* Game's interval is set and not cleared
    ticks,          \* number of GET /api/sync fetches issued
    inflight,       \* the responses under way to the interval's callbacks, in issue order
    history,        \* Game's history state (array of {text, colour})
    arrived,        \* the payloads handed to setHistory so far, in order, each with
                    \* whether a fetch issued before its own was still under way
    selectedOption, \* Game's selectedOption state
    puzzleText,     \* Game's puzzleText state
    puzzleRequests, \* bodies of the POST /api/puzzle requests awaiting their response
    puzzleSettled,  \* the response to the POST /api/puzzle that settled last, if any
    tip             \* the body the sync endpoint answers with at present

(* The state of Game *)
feedVars == <<polling, ticks, inflight, history, arrived>>

(* The puzzle panel of Game *)
puzzleVars == <<selectedOption, puzzleText, puzzleRequests, puzzleSettled>>

vars == <<catalog, selectedCards, deckRequests, view, feedVars, puzzleVars, tip>>

-----------------------------------------------------------------------------
(* Card attributes *)

MODELS == <<"Gemini", "ChatGPT", "Llama", "Qwen", "Kimi">>

EXPERTISE ==
    <<"Pattern Recognition", "Risk Assessment", "Creative Thinking",
      "Decision Making", "Long-Term Vision", "Detail Focus">>

PERSONALITIES ==
    <<"Dominant", "Leader", "Thoughtful", "Analytical", "Creative", "Aggressive",
      "Cautious", "Patient", "Decisive", "Flexible", "Detail-Oriented">>

(* Math.floor(seededRandom(seed + k) * length) for seed = cardId * 137 and  *)
(* k = 0, 1, 2, tabulated for the ids "1" .. "24" (Math.sin is evaluated in *)
(* IEEE double arithmetic).                                                 *)
seededIndex ==
    << <<4, 2, 8>>, <<4, 0, 1>>, <<1, 0, 2>>, <<3, 3, 1>>, <<0, 0, 9>>, <<1, 4, 1>>,
       <<4, 5, 6>>, <<2, 5, 9>>, <<4, 1, 7>>, <<4, 5, 8>>, <<2, 1, 3>>, <<0, 2, 8>>,
       <<3, 5, 7>>, <<1, 5, 2>>, <<2, 4, 4>>, <<2, 2, 10>>, <<0, 5, 9>>, <<3, 4, 6>>,
       <<0, 0, 1>>, <<3, 0, 9>>, <<2, 5, 6>>, <<2, 0, 10>>, <<1, 4, 9>>, <<4, 5, 4>> >>

getRandomAttributes(cardId) ==
    [model       |-> MODELS[seededIndex[cardId][1] + 1],
     expertise   |-> EXPERTISE[seededIndex[cardId][2] + 1],
     personality |-> PERSONALITIES[seededIndex[cardId][3] + 1]]

MakeCard(cardId) ==
    [id          |-> cardId,
     model       |-> getRandomAttributes(cardId).model,
     expertise   |-> getRandomAttributes(cardId).expertise,
     personality |-> getRandomAttributes(cardId).personality]

ALL_CARDS == [i \in 1..NumCards |-> MakeCard(i)]

-----------------------------------------------------------------------------
(* Objects and arrays *)

Range(s) == {s[i] : i \in DOMAIN s}

(* Object.keys(obj) *)
Keys(obj) == [i \in DOMAIN obj |-> obj[i].key]

HasKey(obj, k) == \E i \in DOMAIN obj : obj[i].key = k

(* obj[k], for an own property k *)
Get(obj, k) == obj[CHOOSE i \in DOMAIN obj : obj[i].key = k].value

(* { ...obj, [k]: v }: an own property keeps its place, a new one goes last *)
SpreadSet(obj, k, v) ==
    IF HasKey(obj, k)
    THEN [i \in DOMAIN obj |-> IF obj[i].key = k THEN [key |-> k, value |-> v] ELSE obj[i]]
    ELSE Append(obj, [key |-> k, value |-> v])

(* Object.values(obj).flat() *)
RECURSIVE FlatFrom(_, _)
FlatFrom(obj, i) ==
    IF i > Len(obj) THEN <<>> ELSE obj[i].value \o FlatFrom(obj, i + 1)

FlatValues(obj) == FlatFrom(obj, 1)

(* arr.filter((c) => c.id !== id) *)
FilterOutId(arr, id) == SelectSeq(arr, LAMBDA c : c.id # id)

-----------------------------------------------------------------------------
(* CardSelect *)

(* ROLE_REQUIREMENTS with room for a third state tracker *)
ROLE_REQUIREMENTS_Wide ==
    << [key |-> "facilitator",  value |-> 1],
       [key |-> "critic",       value |-> 1],
       [key |-> "stateTracker", value |-> 3],
       [key |-> "reasoner",     value |-> 2] >>

ROLE_REQUIREMENTS ==
    << [key |-> "facilitator",  value |-> 1],
       [key |-> "critic",       value |-> 1],
       [key |-> "stateTracker", value |-> 2],
       [key |-> "reasoner",     value |-> 2] >>

Roles == Range(Keys(ROLE_REQUIREMENTS))

EmptyDeck ==
    << [key |-> "facilitator",  value |-> <<>>],
       [key |-> "critic",       value |-> <<>>],
       [key |-> "stateTracker", value |-> <<>>],
       [key |-> "reasoner",     value |-> <<>>] >>

(* Object.values(selectedCards).flat().find((c) => c.id === card.id) *)
isCardSelected(sel, card) ==
    \E i \in DOMAIN FlatValues(sel) : FlatValues(sel)[i].id = card.id

(* handleDrop without its test that the card is already in a slot *)
handleDropUnchecked(sel, roleKey, card) ==
    LET current == Get(sel, roleKey)
        max     == Get(ROLE_REQUIREMENTS, roleKey)
    IN  IF Len(current) >= max
        THEN sel
        ELSE SpreadSet(sel, roleKey, Append(current, card))

(* handleDrop that moves a card the deck already holds to the slot it is dropped on *)
handleDropMoving(sel, roleKey, card) ==
    LET without == [i \in DOMAIN sel |->
                       [key |-> sel[i].key, value |-> FilterOutId(sel[i].value, card.id)]]
        current == Get(without, roleKey)
        max     == Get(ROLE_REQUIREMENTS, roleKey)
    IN  IF Len(current) >= max
        THEN sel
        ELSE SpreadSet(without, roleKey, Append(current, card))

(* handleDrop with current.length > max for its capacity test *)
handleDropOffByOne(sel, roleKey, card) ==
    LET current == Get(sel, roleKey)
        max     == Get(ROLE_REQUIREMENTS, roleKey)
    IN  IF isCardSelected(sel, card) \/ Len(current) > max
        THEN sel
        ELSE SpreadSet(sel, roleKey, Append(current, card))

(* handleDrop that sets [card, ...current] *)
handleDropPrepending(sel, roleKey, card) ==
    LET current == Get(sel, roleKey)
        max     == Get(ROLE_REQUIREMENTS, roleKey)
    IN  IF isCardSelected(sel, card) \/ Len(current) >= max
        THEN sel
        ELSE SpreadSet(sel, roleKey, <<card>> \o current)

(* The value setSelectedCards receives; sel itself where the handler returns early *)
handleDrop(sel, roleKey, card) ==
    LET current == Get(sel, roleKey)
        max     == Get(ROLE_REQUIREMENTS, roleKey)
    IN  IF isCardSelected(sel, card) \/ Len(current) >= max
        THEN sel
        ELSE SpreadSet(sel, roleKey, Append(current, card))

(* handleRemove that pops the last card of the role *)
handleRemovePop(sel, roleKey, card) ==
    SpreadSet(sel, roleKey, SubSeq(Get(sel, roleKey), 1, Len(Get(sel, roleKey)) - 1))

(* handleRemove that leaves the remaining cards of the role in reverse *)
handleRemoveReversing(sel, roleKey, card) ==
    LET rest == FilterOutId(Get(sel, roleKey), card.id)
    IN  SpreadSet(sel, roleKey, [n \in DOMAIN rest |-> rest[Len(rest) + 1 - n]])

(* handleRemove that filters the card out of every role *)
handleRemoveAnywhere(sel, roleKey, card) ==
    [i \in DOMAIN sel |-> [key |-> sel[i].key, value |-> FilterOutId(sel[i].value, card.id)]]

handleRemove(sel, roleKey, card) ==
    SpreadSet(sel, roleKey, FilterOutId(Get(sel, roleKey), card.id))

(* isDeckComplete with .some for .every *)
isDeckCompleteSome(sel) ==
    \E i \in DOMAIN Keys(ROLE_REQUIREMENTS) :
        Len(Get(sel, Keys(ROLE_REQUIREMENTS)[i])) = Get(ROLE_REQUIREMENTS, Keys(ROLE_REQUIREMENTS)[i])

isDeckComplete(sel) ==
    \A i \in DOMAIN Keys(ROLE_REQUIREMENTS) :
        Len(Get(sel, Keys(ROLE_REQUIREMENTS)[i])) = Get(ROLE_REQUIREMENTS, Keys(ROLE_REQUIREMENTS)[i])

(* RoleSlot's onDrop handler: the slot's own capacity test, then CardSelect's handleDrop *)
RoleSlotHandleDrop(sel, roleKey, card) ==
    LET filled   == Len(Get(sel, roleKey))
        required == Get(ROLE_REQUIREMENTS, roleKey)
    IN  IF filled >= required THEN sel ELSE handleDrop(sel, roleKey, card)

(* The loops of randomFillDeck: role r of ROLE_REQUIREMENTS, iteration i of its inner loop *)
RECURSIVE FillLoop(_, _, _, _, _)
FillLoop(newDeck, shuffled, cardIndex, r, i) ==
    IF r > Len(ROLE_REQUIREMENTS) THEN newDeck
    ELSE IF i >= ROLE_REQUIREMENTS[r].value
         THEN FillLoop(newDeck, shuffled, cardIndex, r + 1, 0)
         ELSE IF cardIndex < Len(shuffled)
              THEN FillLoop(SpreadSet(newDeck, ROLE_REQUIREMENTS[r].key,
                                      Append(Get(newDeck, ROLE_REQUIREMENTS[r].key),
                                             shuffled[cardIndex + 1])),
                            shuffled, cardIndex + 1, r, i + 1)
              ELSE FillLoop(newDeck, shuffled, cardIndex, r, i + 1)

(* randomFillDeck without its cardIndex++ *)
RECURSIVE FillLoopNoAdvance(_, _, _, _, _)
FillLoopNoAdvance(newDeck, shuffled, cardIndex, r, i) ==
    IF r > Len(ROLE_REQUIREMENTS) THEN newDeck
    ELSE IF i >= ROLE_REQUIREMENTS[r].value
         THEN FillLoopNoAdvance(newDeck, shuffled, cardIndex, r + 1, 0)
         ELSE IF cardIndex < Len(shuffled)
              THEN FillLoopNoAdvance(SpreadSet(newDeck, ROLE_REQUIREMENTS[r].key,
                                               Append(Get(newDeck, ROLE_REQUIREMENTS[r].key),
                                                      shuffled[cardIndex + 1])),
                                     shuffled, cardIndex, r, i + 1)
              ELSE FillLoopNoAdvance(newDeck, shuffled, cardIndex, r, i + 1)

randomFillDeckNoAdvance(shuffled) == FillLoopNoAdvance(EmptyDeck, shuffled, 0, 1, 0)

(* randomFillDeck that fills the roles last to first *)
RECURSIVE FillLoopBackwards(_, _, _, _, _)
FillLoopBackwards(newDeck, shuffled, cardIndex, r, i) ==
    IF r < 1 THEN newDeck
    ELSE IF i >= ROLE_REQUIREMENTS[r].value
         THEN FillLoopBackwards(newDeck, shuffled, cardIndex, r - 1, 0)
         ELSE IF cardIndex < Len(shuffled)
              THEN FillLoopBackwards(SpreadSet(newDeck, ROLE_REQUIREMENTS[r].key,
                                               Append(Get(newDeck, ROLE_REQUIREMENTS[r].key),
                                                      shuffled[cardIndex + 1])),
                                     shuffled, cardIndex + 1, r, i + 1)
              ELSE FillLoopBackwards(newDeck, shuffled, cardIndex, r, i + 1)

randomFillDeckBackwards(shuffled) ==
    FillLoopBackwards(EmptyDeck, shuffled, 0, Len(ROLE_REQUIREMENTS), 0)

(* The deck randomFillDeck sets, given the outcome of its shuffle *)
(* randomFillDeck with newDeck a copy of selectedCards *)
randomFillDeckOntoCurrent(shuffled) == FillLoop(selectedCards, shuffled, 0, 1, 0)

randomFillDeck(shuffled) == FillLoop(EmptyDeck, shuffled, 0, 1, 0)

(* The outcomes of [...cards].sort(() => Math.random() - 0.5): a comparator that *)
(* answers at random can leave the array in any order                            *)
RECURSIVE Orderings(_)
Orderings(S) ==
    IF S = {} THEN {<<>>}
    ELSE UNION {{<<x>> \o p : p \in Orderings(S \ {x})} : x \in S}

Shuffles(cards) == Orderings(Range(cards))

Rotate(cards, k) ==
    [i \in DOMAIN cards |-> cards[((i - 1 + k) % Len(cards)) + 1]]

Reverse(cards) == [i \in DOMAIN cards |-> cards[Len(cards) + 1 - i]]

(* The shuffles of Shuffles(cards) that the bound MaxRotation keeps *)
SampledShuffles(cards) ==
    {Rotate(cards, k) : k \in 0..MaxRotation} \cup
    {Reverse(Rotate(cards, k)) : k \in 0..MaxRotation}

(* The loops of handleStartGame that build the agents array *)
RECURSIVE AgentsLoop(_, _, _, _)
AgentsLoop(out, sel, e, j) ==
    IF e > Len(sel) THEN out
    ELSE IF j > Len(sel[e].value)
         THEN AgentsLoop(out, sel, e + 1, 1)
         ELSE AgentsLoop(Append(out, [model       |-> sel[e].value[j].model,
                                      expertise   |-> sel[e].value[j].expertise,
                                      personality |-> sel[e].value[j].personality,
                                      role        |-> sel[e].key]),
                         sel, e, j + 1)

(* handleStartGame with agents.unshift for agents.push *)
RECURSIVE AgentsLoopUnshift(_, _, _, _)
AgentsLoopUnshift(out, sel, e, j) ==
    IF e > Len(sel) THEN out
    ELSE IF j > Len(sel[e].value)
         THEN AgentsLoopUnshift(out, sel, e + 1, 1)
         ELSE AgentsLoopUnshift(<<[model       |-> sel[e].value[j].model,
                                   expertise   |-> sel[e].value[j].expertise,
                                   personality |-> sel[e].value[j].personality,
                                   role        |-> sel[e].key]>> \o out,
                                sel, e, j + 1)

buildAgentsUnshift(sel) == AgentsLoopUnshift(<<>>, sel, 1, 1)

buildAgents(sel) == AgentsLoop(<<>>, sel, 1, 1)

-----------------------------------------------------------------------------
(* Handlers *)

(* Game before its first mount: no interval, an empty history *)
GameNotMounted ==
    /\ polling = FALSE
    /\ ticks = 0
    /\ inflight = <<>>
    /\ history = <<>>
    /\ arrived = <<>>
    /\ selectedOption = ""
    /\ puzzleText = ""
    /\ puzzleRequests = <<>>
    /\ puzzleSettled = <<>>
    /\ tip = <<>>

Init ==
    /\ catalog = ALL_CARDS
    /\ selectedCards = EmptyDeck
    /\ deckRequests = <<>>
    /\ view = "/CardSelection"
    /\ GameNotMounted

(* A drop on a role slot.  The dropped card is whatever the drag's JSON data *)
(* spells: any card of the pool, also one the deck already holds (a drag     *)
(* begun in another window of the page).                                     *)
Drop(roleKey, card) ==
    /\ selectedCards' = RoleSlotHandleDrop(selectedCards, roleKey, card)
    /\ UNCHANGED <<catalog, deckRequests, view, feedVars, puzzleVars, tip>>

(* A click on the filled slot i of a role: onRemove(selected[i]) *)
Remove(roleKey, i) ==
    /\ i \in DOMAIN Get(selectedCards, roleKey)
    /\ selectedCards' = handleRemove(selectedCards, roleKey, Get(selectedCards, roleKey)[i])
    /\ UNCHANGED <<catalog, deckRequests, view, feedVars, puzzleVars, tip>>

(* A Clear All that leaves the reasoners in their slots *)
clearAllDeckKeepsReasoners ==
    SpreadSet(EmptyDeck, "reasoner", Get(selectedCards, "reasoner"))

(* The object literal the Clear All button hands to setSelectedCards *)
clearAllDeck ==
    << [key |-> "facilitator",  value |-> <<>>],
       [key |-> "critic",       value |-> <<>>],
       [key |-> "stateTracker", value |-> <<>>],
       [key |-> "reasoner",     value |-> <<>>] >>

ClearAll ==
    /\ selectedCards' = clearAllDeck
    /\ UNCHANGED <<catalog, deckRequests, view, feedVars, puzzleVars, tip>>

RandomFill ==
    \E shuffled \in SampledShuffles(catalog) :
        /\ selectedCards' = randomFillDeck(shuffled)
        /\ UNCHANGED <<catalog, deckRequests, view, feedVars, puzzleVars, tip>>

Next ==
    \/ \E roleKey \in Roles, i \in DOMAIN catalog : Drop(roleKey, catalog[i])
    \/ \E roleKey \in Roles, i \in 1..2 : Remove(roleKey, i)
    \/ ClearAll
    \/ RandomFill

(* Deck assembly: the four operations on selectedCards *)
Spec == Init /\ [][Next]_vars

-----------------------------------------------------------------------------
(* randomFillDeck as a function of the pool: pools of 0 .. NumCards cards and *)
(* every outcome of the shuffle.  randomFillDeck builds its deck from a fresh *)
(* newDeck, so its outcomes are explored from the empty deck.                 *)

Pools == {SubSeq(ALL_CARDS, 1, k) : k \in 0..NumCards}

InitFill ==
    /\ catalog \in Pools
    /\ selectedCards = EmptyDeck
    /\ deckRequests = <<>>
    /\ view = "/CardSelection"
    /\ GameNotMounted

RandomFillAny ==
    /\ selectedCards = EmptyDeck
    /\ \E shuffled \in Shuffles(catalog) :
        /\ selectedCards' = randomFillDeck(shuffled)
        /\ UNCHANGED <<catalog, deckRequests, view, feedVars, puzzleVars, tip>>

NextFill ==
    \/ RandomFillAny
    \/ ClearAll

SpecFill == InitFill /\ [][NextFill]_vars

-----------------------------------------------------------------------------
(* Submission: handleStartGame on a deck as assembled.  The decks are those *)
(* a fill of a pool of 0 .. NumCards cards leaves, each of which the drops  *)
(* of its cards in order reach as well.                                     *)

AssembledDecks ==
    UNION {{randomFillDeck(shuffled) : shuffled \in Shuffles(pool)} : pool \in Pools}

InitStart ==
    /\ catalog = ALL_CARDS
    /\ selectedCards \in AssembledDecks
    /\ deckRequests = <<>>
    /\ view = "/CardSelection"
    /\ GameNotMounted

(* A click on the Start Game button, up to the fetch *)
StartGame ==
    /\ view = "/CardSelection"
    /\ Len(deckRequests) < MaxRequests
    /\ deckRequests' = IF isDeckComplete(selectedCards)
                       THEN Append(deckRequests, [agents |-> buildAgents(selectedCards)])
                       ELSE deckRequests
    /\ UNCHANGED <<catalog, selectedCards, view, feedVars, puzzleVars, tip>>

RemoveAt(s, i) == SubSeq(s, 1, i - 1) \o SubSeq(s, i + 1, Len(s))

(* The fetch of request i settles with response.ok: navigate("/game"), and *)
(* Game mounts and sets its interval                                       *)
DeckAccepted(i) ==
    /\ i \in DOMAIN deckRequests
    /\ deckRequests' = RemoveAt(deckRequests, i)
    /\ view' = "/game"
    /\ polling' = TRUE
    /\ UNCHANGED <<catalog, selectedCards, ticks, inflight, history, arrived, puzzleVars, tip>>

(* handleStartGame without its throw on a response that is not ok *)
DeckRefusedNavigates(i) ==
    /\ i \in DOMAIN deckRequests
    /\ deckRequests' = RemoveAt(deckRequests, i)
    /\ view' = "/game"
    /\ polling' = TRUE
    /\ UNCHANGED <<catalog, selectedCards, ticks, inflight, history, arrived, puzzleVars, tip>>

(* The fetch of request i rejects, or settles with a status that is not ok: *)
(* the catch logs the error                                                 *)
DeckRefused(i) ==
    /\ i \in DOMAIN deckRequests
    /\ deckRequests' = RemoveAt(deckRequests, i)
    /\ UNCHANGED <<catalog, selectedCards, view, feedVars, puzzleVars, tip>>

NextStart ==
    \/ StartGame
    \/ \E i \in 1..MaxRequests : DeckAccepted(i)
    \/ \E i \in 1..MaxRequests : DeckRefused(i)

SpecStart == InitStart /\ [][NextStart]_vars

-----------------------------------------------------------------------------
(* Session feed: the interval of Game and its history *)

(* Texts and colours the bodies of the sync endpoint carry *)
Texts == {"", "A", "B"}

Colours == {"red", "blue"}

(* The JSON bodies: {} and {text, colour} *)
Payloads ==
    {<<>>} \cup {<< [key |-> "text", value |-> t], [key |-> "colour", value |-> c] >> :
                     t \in Texts, c \in Colours}

(* What a fetch of /api/sync comes to.  outcome "networkError": fetch      *)
(* rejects; "notJson": response.json() rejects; "json": response.json()    *)
(* resolves to data.  ok is response.ok, which a body does not depend on.  *)
SyncResponses ==
    {[outcome |-> "networkError", ok |-> FALSE, data |-> <<>>]}
        \cup {[outcome |-> "notJson", ok |-> ok, data |-> <<>>] : ok \in BOOLEAN}
        \cup {[outcome |-> "json", ok |-> ok, data |-> d] : ok \in BOOLEAN, d \in Payloads}

(* if (data[k] !== undefined) *)
TruthyDefined(data, k) == HasKey(data, k)

(* if (data[k]): the property is there and no empty string *)
Truthy(data, k) == HasKey(data, k) /\ Get(data, k) # ""

(* { text: data.text, colour: data.colour } *)
HistoryEntry(data) == [text |-> Get(data, "text"), colour |-> Get(data, "colour")]

(* An updater that skips a text any entry of the log has *)
setHistoryUpdaterAnywhere(prev, data) ==
    IF \A n \in DOMAIN prev : prev[n].text # Get(data, "text")
    THEN Append(prev, HistoryEntry(data))
    ELSE prev

(* An updater that compares with the history its closure captured at the *)
(* mount, which is []                                                    *)
setHistoryUpdaterStaleClosure(prev, data) == Append(prev, HistoryEntry(data))

(* An updater that takes a change of colour for a new tip *)
setHistoryUpdaterComparesColour(prev, data) ==
    IF Len(prev) = 0 \/ prev[Len(prev)] # HistoryEntry(data)
    THEN Append(prev, HistoryEntry(data))
    ELSE prev

(* An updater that puts the new entry first *)
setHistoryUpdaterPrepends(prev, data) ==
    IF Len(prev) = 0 \/ prev[Len(prev)].text # Get(data, "text")
    THEN <<HistoryEntry(data)>> \o prev
    ELSE prev

(* The updater handed to setHistory: prev[prev.length - 1]?.text !== data.text *)
setHistoryUpdater(prev, data) ==
    IF Len(prev) = 0 \/ prev[Len(prev)].text # Get(data, "text")
    THEN Append(prev, HistoryEntry(data))
    ELSE prev

(* A callback whose catch empties the log *)
intervalCallbackCatchClears(prev, response) ==
    IF response.outcome # "json" THEN <<>>
    ELSE IF Truthy(response.data, "text")
         THEN setHistoryUpdater(prev, response.data)
         ELSE prev

(* The interval's callback from the settling of its fetch on: try, the two *)
(* awaits, if (data.text) setHistory(...), catch                           *)
intervalCallback(prev, response) ==
    IF response.outcome # "json" THEN prev
    ELSE IF Truthy(response.data, "text")
         THEN setHistoryUpdater(prev, response.data)
         ELSE prev

(* Game mounted at /game: history is [], the effect has set the interval *)
InitFeed ==
    /\ catalog = ALL_CARDS
    /\ selectedCards = EmptyDeck
    /\ deckRequests = <<>>
    /\ view = "/game"
    /\ polling = TRUE
    /\ ticks = 0
    /\ inflight = <<>>
    /\ history = <<>>
    /\ arrived = <<>>
    /\ selectedOption = ""
    /\ puzzleText = ""
    /\ puzzleRequests = <<>>
    /\ puzzleSettled = <<>>
    /\ tip = <<>>

(* The interval fires: its callback issues a fetch, which comes to response *)
SyncTick(response) ==
    /\ polling
    /\ ticks < MaxTicks
    /\ Len(inflight) < MaxInFlight
    /\ ticks' = ticks + 1
    /\ inflight' = Append(inflight, response)
    /\ UNCHANGED <<catalog, selectedCards, deckRequests, view, polling, history, arrived, puzzleVars, tip>>

(* A payload handed to setHistory, as the record of arrivals keeps it *)
Handed(data, overtook) ==
    [text |-> Get(data, "text"), colour |-> Get(data, "colour"), overtook |-> overtook]

(* A callback that drops a response which overtook an earlier fetch *)
SyncSettlesInIssueOrder(i) ==
    /\ i \in DOMAIN inflight
    /\ inflight' = RemoveAt(inflight, i)
    /\ history' = IF view = "/game" /\ i = 1
                  THEN intervalCallback(history, inflight[i])
                  ELSE history
    /\ arrived' = IF inflight[i].outcome = "json" /\ Truthy(inflight[i].data, "text")
                  THEN Append(arrived, Handed(inflight[i].data, i > 1))
                  ELSE arrived
    /\ UNCHANGED <<catalog, selectedCards, deckRequests, view, polling, ticks, puzzleVars, tip>>

(* A history kept outside the state of Game, which outlives the unmount *)
SyncSettlesDetached(i) ==
    /\ i \in DOMAIN inflight
    /\ inflight' = RemoveAt(inflight, i)
    /\ history' = intervalCallback(history, inflight[i])
    /\ arrived' = IF inflight[i].outcome = "json" /\ Truthy(inflight[i].data, "text")
                  THEN Append(arrived, Handed(inflight[i].data, i > 1))
                  ELSE arrived
    /\ UNCHANGED <<catalog, selectedCards, deckRequests, view, polling, ticks, puzzleVars, tip>>

(* The fetch i settles and its callback runs to its end.  A state update on *)
(* a component that is no longer mounted is dropped: history is the state   *)
(* of Game, which is shown at /game only.                                   *)
SyncSettles(i) ==
    /\ i \in DOMAIN inflight
    /\ inflight' = RemoveAt(inflight, i)
    /\ history' = IF view = "/game"
                  THEN intervalCallback(history, inflight[i])
                  ELSE history
    /\ arrived' = IF inflight[i].outcome = "json" /\ Truthy(inflight[i].data, "text")
                  THEN Append(arrived, Handed(inflight[i].data, i > 1))
                  ELSE arrived
    /\ UNCHANGED <<catalog, selectedCards, deckRequests, view, polling, ticks, puzzleVars, tip>>

(* An effect that returns no cleanup *)
LeaveGameKeepsInterval ==
    /\ view = "/game"
    /\ view' = "/"
    /\ UNCHANGED <<catalog, selectedCards, deckRequests, feedVars, puzzleVars, tip>>

(* The route changes and Game unmounts: the effect's cleanup clears the *)
(* interval                                                             *)
LeaveGame ==
    /\ view = "/game"
    /\ view' = "/"
    /\ polling' = FALSE
    /\ UNCHANGED <<catalog, selectedCards, deckRequests, ticks, inflight, history, arrived, puzzleVars, tip>>

NextFeed ==
    \/ \E response \in SyncResponses : SyncTick(response)
    \/ \E i \in 1..MaxInFlight : SyncSettles(i)
    \/ LeaveGame

(* The feed: ticks, responses settling in any order, the unmount *)
SpecFeed == InitFeed /\ [][NextFeed]_vars

(* The interval fires after the response to the fetch before it was applied *)
SyncPoll(response) ==
    /\ polling
    /\ inflight = <<>>
    /\ ticks < MaxPolls
    /\ ticks' = ticks + 1
    /\ inflight' = <<response>>
    /\ UNCHANGED <<catalog, selectedCards, deckRequests, view, polling, history, arrived, puzzleVars, tip>>

NextPoll ==
    \/ \E response \in SyncResponses : SyncPoll(response)
    \/ SyncSettles(1)

(* The feed when every response is applied before the next tick *)
SpecPoll == InitFeed /\ [][NextPoll]_vars

-----------------------------------------------------------------------------
(* The feed without end: an endpoint that answers with its tip, an interval *)
(* that fires for as long as it is set.  The count of the fetches and the   *)
(* record of arrivals are kept in the bounded specifications only.          *)

(* The tips of the endpoint: the bodies with a text that is not empty *)
Tips == {d \in Payloads : Truthy(d, "text")}

(* What a fetch comes to when the endpoint holds the body data: the fetch   *)
(* rejects, or the endpoint answers with data under a status that is or is *)
(* not a success                                                           *)
AnswersWith(data) ==
    {r \in SyncResponses : r.outcome = "networkError" \/ (r.outcome = "json" /\ r.data = data)}

(* The endpoint takes up a new tip *)
TipChanges(data) ==
    /\ Len(history) < MaxTipLog
    /\ data # tip
    /\ tip' = data
    /\ UNCHANGED <<catalog, selectedCards, deckRequests, view, feedVars, puzzleVars>>

(* The interval fires: its callback issues a fetch, which the endpoint *)
(* answers with the tip it holds then                                  *)
SyncTickOnTip(response) ==
    /\ polling
    /\ Len(inflight) < MaxInFlight
    /\ response \in AnswersWith(tip)
    /\ inflight' = Append(inflight, response)
    /\ UNCHANGED <<catalog, selectedCards, deckRequests, view, polling, ticks, history,
                   arrived, puzzleVars, tip>>

(* The fetch i settles and its callback runs to its end *)
SyncSettlesOnTip(i) ==
    /\ i \in DOMAIN inflight
    /\ inflight' = RemoveAt(inflight, i)
    /\ history' = IF view = "/game"
                  THEN intervalCallback(history, inflight[i])
                  ELSE history
    /\ UNCHANGED <<catalog, selectedCards, deckRequests, view, polling, ticks, arrived,
                   puzzleVars, tip>>

NextHeal ==
    \/ \E data \in Tips : TipChanges(data)
    \/ \E response \in SyncResponses : SyncTickOnTip(response)
    \/ \E i \in 1..MaxInFlight : SyncSettlesOnTip(i)
    \/ LeaveGame

(* setInterval fires its callback again and again until it is cleared *)
SpecHeal ==
    /\ InitFeed
    /\ [][NextHeal]_vars
    /\ WF_vars(\E response \in SyncResponses : SyncTickOnTip(response))

-----------------------------------------------------------------------------
(* Puzzle panel of Game: the select and the Submit button *)

(* PUZZLES; the text of the second puzzle is cut short *)
PUZZLES ==
    << [key |-> "Math Problem",              value |-> "What's 1 + 1?"],
       [key |-> "Murder at Blackwood Manor", value |-> "The Fortress Blackwood Manor ..."] >>

(* The values of the options of the select *)
Options == {""} \cup Range(Keys(PUZZLES))

(* What a fetch of /api/puzzle comes to: it rejects, or resolves to a *)
(* response with response.ok                                           *)
PuzzleResponses ==
    {[outcome |-> "networkError", ok |-> FALSE]}
        \cup {[outcome |-> "response", ok |-> ok] : ok \in BOOLEAN}

(* PUZZLES[selected] || "" *)
puzzleOf(selected) == IF HasKey(PUZZLES, selected) THEN Get(PUZZLES, selected) ELSE ""

(* handleSubmit from the settling of its fetch on, without the throw on a *)
(* response that is not ok                                                *)
handleSubmitSettledNoThrow(option, text, response) ==
    IF response.outcome = "response"
    THEN [selectedOption |-> "", puzzleText |-> ""]
    ELSE [selectedOption |-> option, puzzleText |-> text]

(* handleSubmit from the settling of its fetch on: the selection it leaves *)
handleSubmitSettled(option, text, response) ==
    IF response.outcome = "response" /\ response.ok
    THEN [selectedOption |-> "", puzzleText |-> ""]
    ELSE [selectedOption |-> option, puzzleText |-> text]

(* The select changes to one of its options *)
SelectChange(selected) ==
    /\ view = "/game"
    /\ selectedOption' = selected
    /\ puzzleText' = puzzleOf(selected)
    /\ UNCHANGED <<catalog, selectedCards, deckRequests, view, feedVars,
                   puzzleRequests, puzzleSettled, tip>>

(* handleSubmit up to its fetch.  The Submit button is disabled while *)
(* puzzleText is empty, and the handler returns then.                 *)
Submit ==
    /\ view = "/game"
    /\ Len(puzzleRequests) < MaxPuzzleRequests
    /\ puzzleRequests' = IF puzzleText = ""
                         THEN puzzleRequests
                         ELSE Append(puzzleRequests, [puzzle |-> puzzleText])
    /\ UNCHANGED <<catalog, selectedCards, deckRequests, view, feedVars,
                   selectedOption, puzzleText, puzzleSettled, tip>>

(* The fetch of request i settles with response *)
PuzzleSettles(i, response) ==
    /\ view = "/game"
    /\ i \in DOMAIN puzzleRequests
    /\ puzzleRequests' = RemoveAt(puzzleRequests, i)
    /\ selectedOption' = handleSubmitSettled(selectedOption, puzzleText, response).selectedOption
    /\ puzzleText' = handleSubmitSettled(selectedOption, puzzleText, response).puzzleText
    /\ puzzleSettled' = <<response>>
    /\ UNCHANGED <<catalog, selectedCards, deckRequests, view, feedVars, tip>>

NextPuzzle ==
    \/ \E selected \in Options : SelectChange(selected)
    \/ Submit
    \/ \E i \in 1..MaxPuzzleRequests, response \in PuzzleResponses : PuzzleSettles(i, response)

(* The puzzle panel while Game is mounted *)
SpecPuzzle == InitFeed /\ [][NextPuzzle]_vars

-----------------------------------------------------------------------------
(* Properties of deck assembly *)

(* Number of cards the deck holds in a role, and in all *)
Count(sel, roleKey) == Len(Get(sel, roleKey))

Total(sel) ==
    Count(sel, "facilitator") + Count(sel, "critic")
        + Count(sel, "stateTracker") + Count(sel, "reasoner")

(* The ids of the cards a role holds *)
IdsIn(sel, roleKey) == {Get(sel, roleKey)[i].id : i \in DOMAIN Get(sel, roleKey)}

(* No card id fills two slots, of one role or of two *)
NoCardTwice(sel) ==
    \A r1, r2 \in Roles :
        \A i \in DOMAIN Get(sel, r1), j \in DOMAIN Get(sel, r2) :
            (r1 # r2 \/ i # j) => Get(sel, r1)[i].id # Get(sel, r2)[j].id

AtCapacity(sel) ==
    /\ Count(sel, "facilitator") = 1
    /\ Count(sel, "critic") = 1
    /\ Count(sel, "stateTracker") = 2
    /\ Count(sel, "reasoner") = 2

PoolCards == Range(catalog)

(* C1: in every deck reachable from the empty deck by drops, removals, Clear *)
(* All and random fills, no card id occurs more than once across the roles.  *)
C1_NoCardInTwoSlots == NoCardTwice(selectedCards)

(* A full deck of six cards *)
C1_Witness == Total(selectedCards) = 6 /\ NoCardTwice(selectedCards)

(* C2: in every reachable deck each role holds at most its capacity          *)
(* (facilitator 1, critic 1, stateTracker 2, reasoner 2), at most 6 in all.  *)
C2_WithinCapacity ==
    /\ Count(selectedCards, "facilitator") <= 1
    /\ Count(selectedCards, "critic") <= 1
    /\ Count(selectedCards, "stateTracker") <= 2
    /\ Count(selectedCards, "reasoner") <= 2
    /\ Total(selectedCards) <= 6

(* Both state-tracker slots are filled and a card of the pool is still free *)
C2_Witness ==
    /\ Count(selectedCards, "stateTracker") = 2
    /\ \E c \in PoolCards : ~isCardSelected(selectedCards, c)

(* C3: a drop of a card whose id the deck already holds, in the role dropped *)
(* on or in another, is rejected: the deck stays as it is and the card stays *)
(* where it was.                                                             *)
C3_DuplicateRejected ==
    \A roleKey \in Roles, c \in PoolCards :
        isCardSelected(selectedCards, c) =>
            /\ handleDrop(selectedCards, roleKey, c) = selectedCards
            /\ RoleSlotHandleDrop(selectedCards, roleKey, c) = selectedCards

(* A card sits in one role while another role has a free slot to drop it on *)
C3_Witness ==
    \E r1, r2 \in Roles, c \in PoolCards :
        /\ r1 # r2
        /\ c.id \in IdsIn(selectedCards, r1)
        /\ Count(selectedCards, r2) < Get(ROLE_REQUIREMENTS, r2)
        /\ handleDrop(selectedCards, r2, c) = selectedCards

(* C4: a drop on a role whose count has reached its capacity is rejected and *)
(* the deck stays as it is, also for a card the deck does not hold.          *)
C4_FullRoleRejected ==
    \A roleKey \in Roles, c \in PoolCards :
        Count(selectedCards, roleKey) >= Get(ROLE_REQUIREMENTS, roleKey) =>
            /\ handleDrop(selectedCards, roleKey, c) = selectedCards
            /\ RoleSlotHandleDrop(selectedCards, roleKey, c) = selectedCards

(* The state tracker is at 2/2 and a third, free card is dropped on it *)
C4_Witness ==
    \E c \in PoolCards :
        /\ Count(selectedCards, "stateTracker") = 2
        /\ ~isCardSelected(selectedCards, c)
        /\ handleDrop(selectedCards, "stateTracker", c) = selectedCards

(* C5: a drop of a card the deck does not hold on a role below capacity      *)
(* gives the deck whose sequence for that role is the old one with the card  *)
(* appended at its end, every other role's sequence as before.               *)
C5_AppendsToRole ==
    \A roleKey \in Roles, c \in PoolCards :
        (/\ ~isCardSelected(selectedCards, c)
         /\ Count(selectedCards, roleKey) < Get(ROLE_REQUIREMENTS, roleKey)) =>
            LET after == handleDrop(selectedCards, roleKey, c)
            IN  /\ Keys(after) = Keys(selectedCards)
                /\ Get(after, roleKey) = Append(Get(selectedCards, roleKey), c)
                /\ \A other \in Roles \ {roleKey} :
                       Get(after, other) = Get(selectedCards, other)
                /\ RoleSlotHandleDrop(selectedCards, roleKey, c) = after

(* A second card has been dropped on a role of two slots, after the first *)
C5_Witness ==
    \E roleKey \in Roles, c \in PoolCards :
        /\ Count(selectedCards, roleKey) = 1
        /\ Get(ROLE_REQUIREMENTS, roleKey) = 2
        /\ ~isCardSelected(selectedCards, c)
        /\ Count(handleDrop(selectedCards, roleKey, c), roleKey) = 2
        /\ handleDrop(selectedCards, roleKey, c) # selectedCards

(* C6: a removal takes the card with the matching id out of the role's       *)
(* sequence when it is there, and leaves the deck as it is when the card is  *)
(* not in that role, also when it sits in another role.                      *)
C6_RemoveFromRole ==
    \A roleKey \in Roles, c \in PoolCards :
        LET before == Get(selectedCards, roleKey)
            after  == handleRemove(selectedCards, roleKey, c)
        IN  IF c.id \in IdsIn(selectedCards, roleKey)
            THEN /\ c.id \notin IdsIn(after, roleKey)
                 /\ IdsIn(after, roleKey) = IdsIn(selectedCards, roleKey) \ {c.id}
                 /\ Count(after, roleKey) = Len(before) - 1
            ELSE after = selectedCards

(* The card removed from one role sits in another, and the role it is removed *)
(* from holds a different card                                                *)
C6_Witness ==
    \E r1, r2 \in Roles, c \in PoolCards :
        /\ r1 # r2
        /\ c.id \in IdsIn(selectedCards, r1)
        /\ Count(selectedCards, r2) > 0
        /\ handleRemove(selectedCards, r2, c) = selectedCards
        /\ handleRemove(selectedCards, r1, c) # selectedCards

(* C7: in every reachable deck isDeckComplete is true exactly when every     *)
(* role's count equals its capacity, which is exactly when the counts sum to *)
(* 6.                                                                        *)
C7_CompleteIffSix ==
    /\ isDeckComplete(selectedCards) <=> AtCapacity(selectedCards)
    /\ AtCapacity(selectedCards) <=> Total(selectedCards) = 6

(* A complete deck *)
C7_Witness == isDeckComplete(selectedCards) /\ Total(selectedCards) = 6

(* In the fill specification a deck that is not empty is what randomFillDeck *)
(* set for some outcome of the shuffle of the pool.                          *)
Filled == selectedCards # EmptyDeck

(* C8: over a pool of at least 6 distinct cards randomFillDeck gives, for    *)
(* every outcome of the shuffle, a complete deck with no card id repeated.   *)
C8_FillCompletes ==
    (Len(catalog) >= 6 /\ Filled) =>
        /\ isDeckComplete(selectedCards)
        /\ AtCapacity(selectedCards)
        /\ NoCardTwice(selectedCards)
        /\ \A roleKey \in Roles : IdsIn(selectedCards, roleKey) \subseteq {c.id : c \in PoolCards}

(* A fill whose shuffle put the last card of the pool first *)
C8_Witness ==
    /\ Len(catalog) >= 6
    /\ Filled
    /\ Get(selectedCards, "facilitator") = <<catalog[Len(catalog)]>>
    /\ isDeckComplete(selectedCards)

RoleOrder == <<"facilitator", "critic", "stateTracker", "reasoner">>

(* A role holds a card only when every role before it is at its capacity *)
FilledInRoleOrder(sel) ==
    \A a, b \in DOMAIN RoleOrder :
        (a < b /\ Count(sel, RoleOrder[b]) > 0) =>
            Count(sel, RoleOrder[a]) = Get(ROLE_REQUIREMENTS, RoleOrder[a])

(* C9: over a pool of k < 6 distinct cards randomFillDeck assigns exactly k  *)
(* distinct cards, filling the roles in the order facilitator, critic,       *)
(* stateTracker, reasoner; the deck stays incomplete and nothing is raised.  *)
C9_ShortPoolFillsPartly ==
    Len(catalog) < 6 =>
        /\ ~isDeckComplete(selectedCards)
        /\ Len(catalog) = 0 => ~Filled
        /\ Filled =>
            /\ Total(selectedCards) = Len(catalog)
            /\ NoCardTwice(selectedCards)
            /\ UNION {IdsIn(selectedCards, roleKey) : roleKey \in Roles} = {c.id : c \in PoolCards}
            /\ FilledInRoleOrder(selectedCards)

(* A pool of five cards filled: the second reasoner slot stays empty *)
C9_Witness ==
    /\ Len(catalog) = 5
    /\ Total(selectedCards) = 5
    /\ Count(selectedCards, "reasoner") = 1
    /\ Get(selectedCards, "facilitator") # <<catalog[1]>>

AgentOf(card, roleKey) ==
    [model |-> card.model, expertise |-> card.expertise,
     personality |-> card.personality, role |-> roleKey]

(* C10: the agents array handleStartGame builds from a complete deck has     *)
(* exactly 6 entries: the roles in the order facilitator, critic,            *)
(* stateTracker, reasoner, within a role the cards in the order of their     *)
(* assignment, each entry with the role its card was assigned to.            *)
C10_AgentsInRoleOrder ==
    \A n \in DOMAIN deckRequests :
        LET a == deckRequests[n].agents
        IN  /\ isDeckComplete(selectedCards)
            /\ Len(a) = 6
            /\ a[1] = AgentOf(Get(selectedCards, "facilitator")[1], "facilitator")
            /\ a[2] = AgentOf(Get(selectedCards, "critic")[1], "critic")
            /\ a[3] = AgentOf(Get(selectedCards, "stateTracker")[1], "stateTracker")
            /\ a[4] = AgentOf(Get(selectedCards, "stateTracker")[2], "stateTracker")
            /\ a[5] = AgentOf(Get(selectedCards, "reasoner")[1], "reasoner")
            /\ a[6] = AgentOf(Get(selectedCards, "reasoner")[2], "reasoner")

(* A submitted deck whose state trackers were assigned against the order of *)
(* their ids                                                                *)
C10_Witness ==
    /\ Len(deckRequests) > 0
    /\ Len(deckRequests[1].agents) = 6
    /\ Get(selectedCards, "stateTracker")[1].id > Get(selectedCards, "stateTracker")[2].id
    /\ Get(selectedCards, "reasoner")[1].id > Get(selectedCards, "reasoner")[2].id


-----------------------------------------------------------------------------
(* Properties of the submission *)

(* C11: a POST /api/deck is issued only from a complete roster: a step from *)
(* a state whose roster is not at its role capacities, a Start click        *)
(* included, adds no request to those under way.                            *)
C11_PostOnlyWhenComplete ==
    [][~AtCapacity(selectedCards) => Len(deckRequests') <= Len(deckRequests)]_vars

(* A roster one reasoner short on the card-selection view, where the Start  *)
(* button can be clicked, and no request under way                          *)
C11_Witness ==
    /\ view = "/CardSelection"
    /\ Total(selectedCards) = 5
    /\ Count(selectedCards, "reasoner") = 1
    /\ ~isDeckComplete(selectedCards)
    /\ deckRequests = <<>>

(* C12: when the POST /api/deck of a request fails, the roster is as it was *)
(* before, the view is as it was before (on the card-selection view it does *)
(* not advance to the game), and on the card-selection view the roster is   *)
(* still complete and a Start click builds the body of the failed request   *)
(* again.                                                                   *)
C12_FailedPostKeepsRoster ==
    [][\A i \in 1..MaxRequests :
          DeckRefused(i) =>
              /\ selectedCards' = selectedCards
              /\ view' = view
              /\ view = "/CardSelection" =>
                     /\ isDeckComplete(selectedCards')
                     /\ Len(deckRequests') < MaxRequests
                     /\ [agents |-> buildAgents(selectedCards')] = deckRequests[i]]_vars

(* Two submissions of a complete roster under way on the card-selection *)
(* view, either of which may fail                                       *)
C12_Witness ==
    /\ view = "/CardSelection"
    /\ Len(deckRequests) = 2
    /\ deckRequests[1] = deckRequests[2]
    /\ deckRequests[1] = [agents |-> buildAgents(selectedCards)]

(* C13: Clear All, applied to any reachable roster, yields the roster whose *)
(* four roles, in the order facilitator, critic, stateTracker, reasoner,    *)
(* each hold the empty sequence.                                            *)
C13_ClearAllEmpties ==
    [][ClearAll =>
          /\ Keys(selectedCards') = RoleOrder
          /\ \A roleKey \in Roles : Get(selectedCards', roleKey) = <<>>]_vars

(* A complete roster, which Clear All empties *)
C13_Witness ==
    /\ Total(selectedCards) = 6
    /\ selectedCards # clearAllDeck


-----------------------------------------------------------------------------
(* Properties of the session feed *)

TextsOf(log) == [n \in DOMAIN log |-> log[n].text]

(* A sequence with each run of equal neighbours collapsed to one *)
RECURSIVE Collapse(_)
Collapse(s) ==
    IF Len(s) <= 1 THEN s
    ELSE LET c == Collapse(SubSeq(s, 1, Len(s) - 1))
         IN  IF c[Len(c)] = s[Len(s)] THEN c ELSE Append(c, s[Len(s)])

IsPrefix(s, t) == Len(s) <= Len(t) /\ SubSeq(t, 1, Len(s)) = s

(* The body of a response carries no text, or the empty text *)
NoText(response) ==
    ~HasKey(response.data, "text") \/ Get(response.data, "text") = ""

(* C14: when each poll's response is applied before the next poll, the texts *)
(* of the history are the non-empty texts the polls returned, in order, with *)
(* consecutive repeats collapsed (A,A,B,B,A gives A,B,A).  A polled tip is   *)
(* the body of any response that parsed as JSON.                             *)
C14_HistoryCollapsesRepeats ==
    TextsOf(history) = Collapse(TextsOf(arrived))

(* The polls returned A,A,B,B,A and the history reads A,B,A *)
C14_Witness ==
    /\ TextsOf(arrived) = <<"A", "A", "B", "B", "A">>
    /\ TextsOf(history) = <<"A", "B", "A">>

(* C15: a poll whose fetch rejects or whose body is not JSON leaves the     *)
(* history as it was and the interval set, and issues no fetch of its own:  *)
(* the step removes the settled fetch and nothing else.                     *)
C15_FailedPollChangesNothing ==
    [][\A i \in 1..MaxInFlight :
          (SyncSettles(i) /\ inflight[i].outcome \in {"networkError", "notJson"}) =>
              /\ history' = history
              /\ polling' = polling
              /\ ticks' = ticks
              /\ inflight' = RemoveAt(inflight, i)]_vars

(* A fetch about to fail while the log has an entry and the interval has *)
(* ticks to come                                                         *)
C15_Witness ==
    /\ view = "/game"
    /\ polling
    /\ ticks < MaxTicks
    /\ history # <<>>
    /\ \E i \in DOMAIN inflight : inflight[i].outcome \in {"networkError", "notJson"}

(* C16: a poll response with a status that is not a success leaves the *)
(* history as it was, even when its body is JSON with a non-empty text. *)
C16_NonOkLeavesHistory ==
    [][\A i \in 1..MaxInFlight :
          (SyncSettles(i) /\ ~inflight[i].ok) => history' = history]_vars

(* C17: a successful poll whose body has an empty text or none leaves the *)
(* history as it was, whatever its colour and whatever the log holds.     *)
C17_EmptyTextDiscarded ==
    [][\A i \in 1..MaxInFlight :
          (/\ SyncSettles(i)
           /\ inflight[i].outcome = "json"
           /\ inflight[i].ok
           /\ NoText(inflight[i])) => history' = history]_vars

(* A successful response with the empty text and a colour under way while *)
(* the log has an entry                                                   *)
C17_Witness ==
    /\ view = "/game"
    /\ history # <<>>
    /\ \E i \in DOMAIN inflight :
          /\ inflight[i].outcome = "json"
          /\ inflight[i].ok
          /\ HasKey(inflight[i].data, "text")
          /\ Get(inflight[i].data, "text") = ""
          /\ Get(inflight[i].data, "colour") # history[Len(history)].colour

(* C18: the history is append-only: across every step the log before is a *)
(* prefix of the log after, and the log grows by at most one entry.       *)
C18_AppendOnly ==
    [][IsPrefix(history, history') /\ Len(history') <= Len(history) + 1]_vars

(* A log that grew twice *)
C18_Witness ==
    /\ Len(history) = 2
    /\ history[1].text # history[2].text

(* C19: once Game has unmounted and its cleanup has run, no fetch of *)
(* /api/sync is issued.                                              *)
C19_NoFetchAfterCleanup ==
    [][view # "/game" => ticks' = ticks /\ Len(inflight') <= Len(inflight)]_vars

(* After the unmount, with ticks and room for a fetch left *)
C19_Witness ==
    /\ view = "/"
    /\ ~polling
    /\ ticks > 0
    /\ ticks < MaxTicks
    /\ Len(inflight) < MaxInFlight

NoAdjacentRepeat(log) ==
    \A n \in DOMAIN log : n > 1 => log[n].text # log[n - 1].text

(* C21: under every interleaving of ticks and of the settling of overlapping *)
(* fetches, the history never holds two adjacent entries with the same text. *)
C21_NoAdjacentDuplicates == NoAdjacentRepeat(history)

(* Two fetches with the text A overlapped, the later one settled first, both *)
(* were handed to setHistory, and the log holds A once                       *)
C21_Witness ==
    /\ view = "/game"
    /\ inflight = <<>>
    /\ TextsOf(arrived) = <<"A", "A">>
    /\ arrived[1].overtook
    /\ TextsOf(history) = <<"A">>

(* The entries a sequence of arrivals leaves, taken in the order of arrival: *)
(* an arrival is kept when its text is not that of the entry kept last       *)
RECURSIVE KeptInArrivalOrder(_)
KeptInArrivalOrder(s) ==
    IF s = <<>> THEN <<>>
    ELSE LET kept == KeptInArrivalOrder(SubSeq(s, 1, Len(s) - 1))
             last == s[Len(s)]
         IN  IF kept # <<>> /\ kept[Len(kept)].text = last.text
             THEN kept
             ELSE Append(kept, [text |-> last.text, colour |-> last.colour])

(* C22: while Game is mounted, the entries of the history are in the order *)
(* in which the responses that produced them were applied, also when a     *)
(* response overtakes a fetch issued before its own: the log is what the   *)
(* arrivals leave when taken in the order of arrival.                      *)
C22_LogInArrivalOrder ==
    view = "/game" => history = KeptInArrivalOrder(arrived)

(* B was issued after A and settled before it: the log reads B, A *)
C22_Witness ==
    /\ view = "/game"
    /\ ticks = 2
    /\ inflight = <<>>
    /\ TextsOf(arrived) = <<"B", "A">>
    /\ arrived[1].overtook
    /\ TextsOf(history) = <<"B", "A">>

(* C25: a polled tip whose text is that of the last entry of the log and *)
(* whose colour differs from that entry's is discarded: the log, and the *)
(* colour of its last entry, stay as they were.                          *)
C25_ColourIgnored ==
    [][\A i \in 1..MaxInFlight :
          (/\ SyncSettles(i)
           /\ history # <<>>
           /\ inflight[i].outcome = "json"
           /\ HasKey(inflight[i].data, "text")
           /\ Get(inflight[i].data, "text") = history[Len(history)].text
           /\ Get(inflight[i].data, "colour") # history[Len(history)].colour)
              => history' = history]_vars

(* The tip handed to setHistory last has the text of the last entry and *)
(* another colour                                                       *)
C25_Witness ==
    /\ view = "/game"
    /\ history # <<>>
    /\ Len(arrived) > 1
    /\ arrived[Len(arrived)].text = history[Len(history)].text
    /\ arrived[Len(arrived)].colour # history[Len(history)].colour


-----------------------------------------------------------------------------
(* Algebra of the roster operations *)

(* C26: for every reachable roster R, role r and card c on which the drop   *)
(* succeeds, removing c from r in the result gives back exactly R, and     *)
(* removing c once more leaves R; removing twice gives what removing once   *)
(* gives, for every role and card; and after the removal, the roster being  *)
(* R again, c can be dropped on every role that is below its capacity.      *)
C26_DropRemoveRoundTrip ==
    \A roleKey \in Roles, card \in PoolCards :
        LET dropped == handleDrop(selectedCards, roleKey, card)
            stray   == handleRemove(selectedCards, roleKey, card)
        IN  /\ handleRemove(stray, roleKey, card) = stray
            /\ dropped # selectedCards =>
                   /\ handleRemove(dropped, roleKey, card) = selectedCards
                   /\ stray = selectedCards
                   /\ \A other \in Roles :
                          Count(selectedCards, other) < Get(ROLE_REQUIREMENTS, other) =>
                              card.id \in IdsIn(handleDrop(selectedCards, other, card), other)

(* A roster with a state tracker and a reasoner in place and room for a *)
(* second of each, on which a drop succeeds                              *)
C26_Witness ==
    /\ Count(selectedCards, "stateTracker") = 1
    /\ Count(selectedCards, "reasoner") = 1
    /\ \E card \in PoolCards :
          /\ handleDrop(selectedCards, "reasoner", card) # selectedCards
          /\ handleRemove(handleDrop(selectedCards, "reasoner", card), "reasoner", card)
                 = selectedCards

(* C27: removing a card from a role changes that role only: the roles and *)
(* every other role's sequence are as before, and the cards the named     *)
(* role keeps are those with another id, in the order they had.           *)
C27_RemoveFrame ==
    \A roleKey \in Roles, card \in PoolCards :
        LET after == handleRemove(selectedCards, roleKey, card)
            old   == Get(selectedCards, roleKey)
            new   == Get(after, roleKey)
        IN  /\ Keys(after) = Keys(selectedCards)
            /\ \A other \in Roles \ {roleKey} : Get(after, other) = Get(selectedCards, other)
            /\ Range(new) = {c \in Range(old) : c.id # card.id}
            /\ Len(new) = Cardinality(Range(new))
            /\ \A a, b \in DOMAIN new :
                   a < b => \E x, y \in DOMAIN old : x < y /\ old[x] = new[a] /\ old[y] = new[b]

(* Every role filled, and a card that the reasoners do not hold while the *)
(* state trackers do                                                      *)
C27_Witness ==
    /\ Count(selectedCards, "facilitator") = 1
    /\ Count(selectedCards, "critic") = 1
    /\ Count(selectedCards, "reasoner") = 2
    /\ Count(selectedCards, "stateTracker") = 2
    /\ \E card \in PoolCards :
          /\ card.id \in IdsIn(selectedCards, "stateTracker")
          /\ handleRemove(selectedCards, "reasoner", card) = selectedCards
          /\ handleRemove(selectedCards, "stateTracker", card) # selectedCards

(* C28: Random Fill replaces the roster: from every reachable roster and   *)
(* for every shuffle, the roster it sets, read in role order, is the first *)
(* six cards of the shuffle (all of them when the pool is smaller), in the *)
(* four roles within their capacities, whatever the roster was before.     *)
C28_FillReplacesRoster ==
    \A shuffled \in SampledShuffles(catalog) :
        LET n     == IF Len(shuffled) < 6 THEN Len(shuffled) ELSE 6
            after == randomFillDeck(shuffled)
        IN  /\ FlatValues(after) = SubSeq(shuffled, 1, n)
            /\ Keys(after) = RoleOrder
            /\ \A roleKey \in Roles :
                   Count(after, roleKey) <= Get(ROLE_REQUIREMENTS, roleKey)

(* A complete roster that no shuffle gives, on which Random Fill acts *)
C28_Witness ==
    /\ Total(selectedCards) = 6
    /\ \A shuffled \in SampledShuffles(catalog) : selectedCards # randomFillDeck(shuffled)


-----------------------------------------------------------------------------
(* Properties of the puzzle panel *)

(* C23: when the POST /api/puzzle of a request settles with a success, the *)
(* selected option and the puzzle text become empty; when it fails (the    *)
(* fetch rejects, or the status is no success), both stay as they were, so *)
(* a selection that is still the puzzle submitted can be submitted again.  *)
C23_SubmitClearsOnSuccessOnly ==
    [][\A i \in 1..MaxPuzzleRequests, response \in PuzzleResponses :
          PuzzleSettles(i, response) =>
              IF response.outcome = "response" /\ response.ok
              THEN selectedOption' = "" /\ puzzleText' = ""
              ELSE /\ selectedOption' = selectedOption
                   /\ puzzleText' = puzzleText
                   /\ puzzleText = puzzleRequests[i].puzzle =>
                          puzzleText' # "" /\ [puzzle |-> puzzleText'] = puzzleRequests[i]]_vars

(* The submission of the math problem came back with a status that is no *)
(* success, and the math problem is still selected                        *)
C23_Witness ==
    /\ puzzleSettled = <<[outcome |-> "response", ok |-> FALSE]>>
    /\ puzzleRequests = <<>>
    /\ selectedOption = "Math Problem"
    /\ puzzleText = "What's 1 + 1?"


-----------------------------------------------------------------------------
(* Properties of the feed without end *)

(* The endpoint's tip has the text x *)
TipIs(x) == HasKey(tip, "text") /\ Get(tip, "text") = x

(* The last entry of the history has the text x *)
LastIs(x) == history # <<>> /\ history[Len(history)].text = x

(* A response with a text other than x is under way *)
Stale(x) ==
    \E i \in DOMAIN inflight :
        /\ inflight[i].outcome = "json"
        /\ HasKey(inflight[i].data, "text")
        /\ Get(inflight[i].data, "text") \notin {"", x}

(* A poll succeeds: a response with a success status and a JSON body settles *)
PollSucceeds ==
    \E i \in 1..MaxInFlight :
        /\ SyncSettlesOnTip(i)
        /\ inflight[i].outcome = "json"
        /\ inflight[i].ok

(* C24: if Game stays mounted, the endpoint's tip is the non-empty text X    *)
(* from some point on, and polls succeed again and again, then from some     *)
(* point on the last entry of the history has the text X whenever no         *)
(* response with an earlier text is under way, however many polls failed.    *)
C24_HealsByRetry ==
    \A x \in {"A", "B"} :
        ([](view = "/game") /\ <>[]TipIs(x) /\ []<><<PollSucceeds>>_vars)
            => <>[](~Stale(x) => LastIs(x))

(* The tip is A; a response with the earlier tip B settled after the first A *)
(* and a later poll put A last again                                        *)
C24_Witness ==
    /\ view = "/game"
    /\ TipIs("A")
    /\ inflight = <<>>
    /\ TextsOf(history) = <<"A", "B", "A">>

=============================================================================
